---- MODULE Spec2Model ----
(***************************************************************************)
(* Model of the generic buyer skill's GenericTransactionBehaviour          *)
(* (packages/fetchai/skills/generic_buyer/behaviours.py): a ticker         *)
(* behaviour that submits queued transactions one at a time to the ledger  *)
(* api, recycles a request whose reply does not arrive in time, and is     *)
(* told about replies through finish_processing / failed_processing.       *)
(***************************************************************************)
EXTENDS Integers, Sequences, FiniteSets, TLC

\* ---------------------------------------------------------------- bounds
MaxRequests == 2          \* fipa dialogues the handlers may enqueue
MaxDialogues == 3         \* ledger api dialogues created in one run
MaxProcessingLimit == 2   \* largest max_processing configured
MaxTickInterval == 2      \* largest transaction_interval configured
MaxRegDialogues == 2      \* dialogues held by the dialogue registry
MaxRef == 1               \* dialogue references used on the wire
MaxInstances == 3         \* instances of the tracked type constructed in one run
MaxSearches == 1          \* oef search requests sent in one run

\* ------------------------------------------------------------- constants
None == 0                 \* Optional[LedgerApiDialogue] = None
Requests == 1..MaxRequests
Threads == {"control", "connection"}   \* threads that construct instances
Profilers == {"profiler_1", "profiler_2"}   \* threads that run a Profiling
Free == "free"            \* the lock is not held
NotCalling == -1          \* the thread is not inside the counting wrapper
A == 1
B == 2

VARIABLES
    waiting,          \* self.waiting: List[FipaDialogue]
    processing,       \* self.processing: Optional[LedgerApiDialogue] (its label)
    processing_time,  \* self.processing_time
    timedout,         \* self.timedout: Set[DialogueLabel]
    max_processing,   \* self.max_processing
    tick_interval,    \* self.tick_interval
    dialogues,        \* ledger api dialogues created so far: label -> associated_fipa_dialogue
    outbox,           \* context.outbox: labels of the messages put, in order
    exc,              \* exception propagated by the last call ("none" when it returned)
    enqueued,         \* fipa dialogues the handlers have appended to waiting
    replied,          \* ledger api dialogues a reply callback was called with
    call,             \* last method called and its argument
    succeeded,        \* observer: fipa dialogues finish_processing accepted a reply for
    reg_dialogues,    \* registry: the Dialogue objects, in creation order
    reg_incomplete_to_complete,  \* registry: incomplete label -> complete label
    reg_nonce,        \* registry: last starter reference handed out
    reg_result,       \* outcome of the last registry call: error and Dialogue returned
    counter,          \* Profiling._counter[obj] of the tracked type obj
    patched,          \* obj.__new__ is the counting wrapper
    instances,        \* instances of obj the garbage collector lists now
    constructed,      \* observer: instances constructed since set_counters
    earlier,          \* observer: instances constructed before set_counters
    new_local,        \* per thread: the count read by a call of the wrapper in progress
    run_pc,           \* position of Profiling.run
    objects_present,  \* result of the last get_objects_instances
    report,           \* data of the last report, with the observer's counts at that time
    is_searching,     \* strategy.is_searching
    searches,         \* oef search requests GenericSearchBehaviour has put in the outbox
    lock,             \* profiling.lock: the thread that holds it, or Free
    scan              \* per profiler thread: the frame of the scan it is calling

regvars == <<reg_dialogues, reg_incomplete_to_complete, reg_nonce, reg_result>>

profvars == <<counter, patched, instances, constructed, earlier, new_local,
              run_pc, objects_present, report>>

searchvars == <<is_searching, searches>>

scanvars == <<lock, scan>>

schedvars == <<waiting, processing, processing_time, timedout, max_processing,
               tick_interval, dialogues, outbox, exc, enqueued, replied, call>>

vars == <<waiting, processing, processing_time, timedout, max_processing,
          tick_interval, dialogues, outbox, exc, enqueued, replied, call,
          succeeded, reg_dialogues, reg_incomplete_to_complete, reg_nonce, reg_result,
          counter, patched, instances, constructed, earlier, new_local,
          run_pc, objects_present, report, is_searching, searches,
          lock, scan>>

\* The behaviour object and the objects it reaches through its context.
self ==
    [waiting |-> waiting, processing |-> processing,
     processing_time |-> processing_time, timedout |-> timedout,
     max_processing |-> max_processing, tick_interval |-> tick_interval,
     dialogues |-> dialogues, outbox |-> outbox, exc |-> "none"]

Store(s) ==
    /\ waiting' = s.waiting
    /\ processing' = s.processing
    /\ processing_time' = s.processing_time
    /\ timedout' = s.timedout
    /\ max_processing' = s.max_processing
    /\ tick_interval' = s.tick_interval
    /\ dialogues' = s.dialogues
    /\ outbox' = s.outbox
    /\ exc' = s.exc

Range(q) == {q[i] : i \in 1..Len(q)}
Count(q, x) == Cardinality({i \in 1..Len(q) : q[i] = x})

\* ------------------------------------------------------------ operations

\* ledger_api_dialogues.create: a new dialogue under a label no earlier
\* dialogue of this agent has.
create(s) == Len(s.dialogues) + 1

start_processing_lifo(s) ==
    LET fipa_dialogue == s.waiting[Len(s.waiting)]
        ledger_api_dialogue == create(s)
    IN  [s EXCEPT !.waiting = SubSeq(@, 1, Len(@) - 1),
                  !.dialogues = Append(@, fipa_dialogue),
                  !.processing_time = 0,
                  !.processing = ledger_api_dialogue,
                  !.outbox = Append(@, ledger_api_dialogue)]

start_processing_reuse(s) ==
    LET fipa_dialogue == Head(s.waiting)
        old == {d \in s.timedout : s.dialogues[d] = fipa_dialogue}
        ledger_api_dialogue == IF old # {} THEN CHOOSE d \in old : TRUE
                               ELSE create(s)
    IN  [s EXCEPT !.waiting = Tail(@),
                  !.dialogues = Append(@, fipa_dialogue),
                  !.processing_time = 0,
                  !.processing = ledger_api_dialogue,
                  !.outbox = Append(@, ledger_api_dialogue)]

start_processing(s) ==
    LET fipa_dialogue == Head(s.waiting)
        ledger_api_dialogue == create(s)
    IN  [s EXCEPT !.waiting = Tail(@),
                  !.dialogues = Append(@, fipa_dialogue),
                  !.processing_time = 0,
                  !.processing = ledger_api_dialogue,
                  !.outbox = Append(@, ledger_api_dialogue)]

timeout_processing_noadd(s) ==
    IF s.processing = None
    THEN s
    ELSE [s EXCEPT !.waiting = Append(@, s.dialogues[s.processing]),
                   !.processing_time = 0,
                   !.processing = None]

timeout_processing_drop(s) ==
    IF s.processing = None
    THEN s
    ELSE [s EXCEPT !.timedout = @ \cup {s.processing},
                   !.processing_time = 0,
                   !.processing = None]

timeout_processing(s) ==
    IF s.processing = None
    THEN s
    ELSE [s EXCEPT !.timedout = @ \cup {s.processing},
                   !.waiting = Append(@, s.dialogues[s.processing]),
                   !.processing_time = 0,
                   !.processing = None]

act_noreturn(s) ==
    LET t == IF s.processing # None
             THEN IF s.processing_time <= s.max_processing
                  THEN [s EXCEPT !.processing_time = @ + s.tick_interval]
                  ELSE timeout_processing(s)
             ELSE s
    IN  IF Len(t.waiting) = 0 THEN t ELSE start_processing(t)

act_strict(s) ==
    IF s.processing # None /\ s.processing_time < s.max_processing
    THEN [s EXCEPT !.processing_time = @ + s.tick_interval]
    ELSE LET t == IF s.processing # None THEN timeout_processing(s) ELSE s
         IN  IF Len(t.waiting) = 0 THEN t ELSE start_processing(t)

act_idle_after_timeout(s) ==
    IF s.processing # None
    THEN IF s.processing_time <= s.max_processing
         THEN [s EXCEPT !.processing_time = @ + s.tick_interval]
         ELSE timeout_processing(s)
    ELSE IF Len(s.waiting) = 0 THEN s ELSE start_processing(s)

act_late(s) ==
    IF s.processing # None
       /\ s.processing_time <= s.max_processing + s.tick_interval
    THEN [s EXCEPT !.processing_time = @ + s.tick_interval]
    ELSE LET t == IF s.processing # None THEN timeout_processing(s) ELSE s
         IN  IF Len(t.waiting) = 0 THEN t ELSE start_processing(t)

act(s) ==
    IF s.processing # None /\ s.processing_time <= s.max_processing
    THEN [s EXCEPT !.processing_time = @ + s.tick_interval]
    ELSE LET t == IF s.processing # None THEN timeout_processing(s) ELSE s
         IN  IF Len(t.waiting) = 0 THEN t ELSE start_processing(t)

finish_processing_requeue(s, ledger_api_dialogue) ==
    IF s.processing = ledger_api_dialogue
    THEN [s EXCEPT !.processing_time = 0, !.processing = None,
                   !.waiting = Append(@, s.dialogues[ledger_api_dialogue])]
    ELSE IF ledger_api_dialogue \notin s.timedout
         THEN [s EXCEPT !.exc = "ValueError"]
         ELSE [s EXCEPT !.timedout = @ \ {ledger_api_dialogue}]

finish_processing_reset(s, ledger_api_dialogue) ==
    IF s.processing = ledger_api_dialogue
    THEN [s EXCEPT !.processing_time = 0, !.processing = None]
    ELSE IF ledger_api_dialogue \notin s.timedout
         THEN [s EXCEPT !.exc = "ValueError"]
         ELSE [s EXCEPT !.timedout = @ \ {ledger_api_dialogue},
                        !.processing_time = 0, !.processing = None]

finish_processing_silent(s, ledger_api_dialogue) ==
    IF s.processing = ledger_api_dialogue
    THEN [s EXCEPT !.processing_time = 0, !.processing = None]
    ELSE [s EXCEPT !.timedout = @ \ {ledger_api_dialogue}]

finish_processing_keep(s, ledger_api_dialogue) ==
    IF s.processing = ledger_api_dialogue
    THEN [s EXCEPT !.processing_time = 0, !.processing = None]
    ELSE IF ledger_api_dialogue \notin s.timedout
         THEN [s EXCEPT !.exc = "ValueError"]
         ELSE s

finish_processing_notime(s, ledger_api_dialogue) ==
    IF s.processing = ledger_api_dialogue
    THEN [s EXCEPT !.processing = None]
    ELSE IF ledger_api_dialogue \notin s.timedout
         THEN [s EXCEPT !.exc = "ValueError"]
         ELSE [s EXCEPT !.timedout = @ \ {ledger_api_dialogue}]

finish_processing_keepslot(s, ledger_api_dialogue) ==
    IF s.processing = ledger_api_dialogue
    THEN s
    ELSE IF ledger_api_dialogue \notin s.timedout
         THEN [s EXCEPT !.exc = "ValueError"]
         ELSE [s EXCEPT !.timedout = @ \ {ledger_api_dialogue}]

finish_processing(s, ledger_api_dialogue) ==
    IF s.processing = ledger_api_dialogue
    THEN [s EXCEPT !.processing_time = 0, !.processing = None]
    ELSE IF ledger_api_dialogue \notin s.timedout
         THEN [s EXCEPT !.exc = "ValueError"]
         ELSE [s EXCEPT !.timedout = @ \ {ledger_api_dialogue}]

failed_processing_head(s, ledger_api_dialogue) ==
    LET f == finish_processing(s, ledger_api_dialogue)
    IN  IF f.exc # "none"
        THEN f
        ELSE [f EXCEPT !.waiting = <<s.dialogues[ledger_api_dialogue]>> \o @]

failed_processing_capped(s, ledger_api_dialogue) ==
    LET f == finish_processing(s, ledger_api_dialogue)
        fipa_dialogue == s.dialogues[ledger_api_dialogue]
    IN  IF f.exc # "none" \/ Count(s.dialogues, fipa_dialogue) >= 2
        THEN f
        ELSE [f EXCEPT !.waiting = Append(@, fipa_dialogue)]

failed_processing_finally(s, ledger_api_dialogue) ==
    LET f == finish_processing(s, ledger_api_dialogue)
    IN  [f EXCEPT !.waiting = Append(@, s.dialogues[ledger_api_dialogue])]

failed_processing_norequeue(s, ledger_api_dialogue) ==
    finish_processing(s, ledger_api_dialogue)

failed_processing(s, ledger_api_dialogue) ==
    LET f == finish_processing(s, ledger_api_dialogue)
    IN  IF f.exc # "none"
        THEN f
        ELSE [f EXCEPT !.waiting = Append(@, s.dialogues[ledger_api_dialogue])]

\* The frame of a profiler thread that is not inside a scan.
Returned ==
    [pc |-> "idle", fn |-> "none", todo |-> 0, raised |-> FALSE,
     objects |-> 0, labels |-> 0]

\* --------------------------------------------------------------- actions

\* Configurations explored: every limit with a tick period of 1, every
\* tick period with the largest limit.
Configurations ==
    {c \in (0..MaxProcessingLimit) \X (1..MaxTickInterval) :
        c[2] = 1 \/ c[1] = MaxProcessingLimit}

Init ==
    /\ waiting = <<>>
    /\ processing = None
    /\ processing_time = 0
    /\ timedout = {}
    /\ \E c \in Configurations :
          /\ max_processing = c[1]
          /\ tick_interval = c[2]
    /\ dialogues = <<>>
    /\ outbox = <<>>
    /\ exc = "none"
    /\ enqueued = {}
    /\ replied = {}
    /\ call = <<"init", None>>
    /\ succeeded = {}
    /\ reg_dialogues = <<>>
    /\ reg_incomplete_to_complete = {}
    /\ reg_nonce = 0
    /\ reg_result = [exc |-> "none", dialogue |-> None]
    /\ counter = 0
    /\ patched = FALSE
    /\ instances = 0
    /\ constructed = 0
    /\ earlier = 0
    /\ new_local = [t \in Threads |-> NotCalling]
    /\ run_pc = "set_counters"
    /\ objects_present = 0
    /\ report = [ready |-> FALSE, created |-> 0, present |-> 0,
                 constructed |-> 0]
    /\ is_searching = FALSE
    /\ searches = 0
    /\ lock = Free
    /\ scan = [t \in Profilers |-> Returned]

\* One tick of the ticker behaviour.
Act ==
    LET s == act(self)
    IN  /\ Len(s.dialogues) <= MaxDialogues
        /\ Store(s)
        /\ call' = <<"act", None>>
        /\ UNCHANGED <<enqueued, replied>>
        /\ UNCHANGED <<regvars, succeeded, profvars, searchvars, scanvars>>

\* The ledger api handler reports a reply for a dialogue.
FinishCall(d) ==
    /\ Store(finish_processing(self, d))
    /\ call' = <<"finish_processing", d>>
    /\ replied' = replied \cup {d}
    /\ UNCHANGED enqueued
    /\ UNCHANGED <<regvars, profvars, searchvars, scanvars>>

Finish(d) == FinishCall(d) /\ UNCHANGED succeeded

\* The ledger api handler reports an error reply for a dialogue.
Failed(d) ==
    /\ Store(failed_processing(self, d))
    /\ call' = <<"failed_processing", d>>
    /\ replied' = replied \cup {d}
    /\ UNCHANGED enqueued
    /\ UNCHANGED <<regvars, succeeded, profvars, searchvars, scanvars>>

\* The fipa handler queues a transaction; each fipa dialogue once.
Enqueue(r) ==
    /\ r \notin enqueued
    /\ enqueued' = enqueued \cup {r}
    /\ Store([self EXCEPT !.waiting = Append(@, r)])
    /\ call' = <<"enqueue", r>>
    /\ UNCHANGED replied
    /\ UNCHANGED <<regvars, succeeded, profvars, searchvars, scanvars>>

Next ==
    \/ Act
    \/ \E d \in 1..Len(dialogues) : Finish(d)
    \/ \E d \in 1..Len(dialogues) : Failed(d)
    \/ \E r \in Requests : Enqueue(r)

Spec == Init /\ [][Next]_vars

\* The agent loop calls act() of a ticker behaviour at every tick_interval.
\* Liveness is checked for one configuration of the two intervals.
LiveInit == Init /\ max_processing = 1 /\ tick_interval = 1

LiveSpec == LiveInit /\ [][Next]_vars /\ WF_vars(Act)

\* The same run watched by an observer that records, at every call of
\* finish_processing that returns normally, the fipa dialogue the reply was
\* for. The observer changes nothing the behaviour reads.
ObservedFinish(d) ==
    /\ FinishCall(d)
    /\ succeeded' = IF exc' = "none"
                    THEN succeeded \cup {dialogues[d]}
                    ELSE succeeded

ObservedNext ==
    \/ Act
    \/ \E d \in 1..Len(dialogues) : ObservedFinish(d)
    \/ \E d \in 1..Len(dialogues) : Failed(d)
    \/ \E r \in Requests : Enqueue(r)

ObservedSpec == Init /\ [][ObservedNext]_vars

\* The run in which the ledger api answers every submitted request with a
\* success before the tick that would time it out: that tick does not come
\* while the reply is outstanding, and the reply does come.
PromptTick ==
    /\ ~(processing # None /\ processing_time > max_processing)
    /\ Act

PromptReply ==
    /\ processing # None
    /\ Finish(processing)

PromptNext ==
    \/ PromptTick
    \/ PromptReply
    \/ \E r \in Requests : Enqueue(r)

PromptSpec ==
    Init /\ [][PromptNext]_vars /\ WF_vars(PromptTick) /\ WF_vars(PromptReply)

TypeOK ==
    /\ waiting \in Seq(Requests)
    /\ processing \in {None} \cup (1..Len(dialogues))
    /\ processing_time \in Nat
    /\ timedout \subseteq 1..Len(dialogues)
    /\ Len(dialogues) <= MaxDialogues
    /\ outbox = [i \in 1..Len(dialogues) |-> i]
    /\ exc \in {"none", "ValueError"}

\* ----------------------------------------------- dialogue correlation engine
\* The registry and the dialogue state machine of sections 3 and 4.1-4.3.

Unassigned == 0           \* placeholder of a reference not yet assigned
Me == "agent"
Cp == "counterparty"

\* The protocol the engine is parameterised with: its performatives and
\* its transition table.
Performatives == {"cfp", "propose", "accept", "decline"}
InitialPerformatives == {"cfp"}
TerminalPerformatives == {"accept", "decline"}
ValidReplies(performative) ==
    CASE performative = "cfp" -> {"propose", "decline"}
      [] performative = "propose" -> {"accept", "decline"}
      [] OTHER -> {}

MessageIds == 1..(Cardinality(Performatives) - 1)

registry ==
    [dialogues |-> reg_dialogues,
     incomplete_to_complete |-> reg_incomplete_to_complete,
     nonce |-> reg_nonce,
     exc |-> "none",
     dialogue |-> None]

RegStore(g) ==
    /\ reg_dialogues' = g.dialogues
    /\ reg_incomplete_to_complete' = g.incomplete_to_complete
    /\ reg_nonce' = g.nonce
    /\ reg_result' = [exc |-> g.exc, dialogue |-> g.dialogue]

\* 4.1 Dialogue label and addressing
IsIncomplete(label) == label.responder_reference = Unassigned

IncompleteVersion(label) == [label EXCEPT !.responder_reference = Unassigned]

complete(label, responder_reference) ==
    [label EXCEPT !.responder_reference = responder_reference]

new_starter_reference_const(g) == 1

new_starter_reference_live(g) ==
    Cardinality({i \in 1..Len(g.dialogues) : ~g.dialogues[i].ended}) + 1

new_starter_reference(g) == g.nonce + 1

\* The label of a message for a given starter of the conversation.
LabelOf(m, starter, responder) ==
    [starter_reference |-> m.dialogue_reference[1],
     responder_reference |-> m.dialogue_reference[2],
     starter_address |-> starter,
     responder_address |-> responder]

Stored(m) ==
    [performative |-> m.performative, message_id |-> m.message_id,
     target |-> m.target]

IsOpening(m) ==
    /\ m.dialogue_reference[2] = Unassigned
    /\ m.message_id = 1
    /\ m.target = 0
    /\ m.performative \in InitialPerformatives

\* Messages a counterparty can deliver: replies and stragglers to the
\* references the agent hands out, openings under the counterparty's own
\* starter references 1..MaxRef.
InboundMessages ==
    {m \in [performative : Performatives,
            dialogue_reference : (1..MaxRegDialogues) \X (0..MaxRef),
            message_id : MessageIds,
            target : 0..(Cardinality(Performatives) - 2)] :
        /\ m.target < m.message_id
        /\ m.message_id <= m.target + 2
        /\ IsOpening(m) => m.dialogue_reference[1] <= MaxRef}

dialogue_update_noref(d, m) ==
    LET last == d.messages[Len(d.messages)]
    IN  IF d.ended
        THEN [exc |-> "DialogueEndedError", dialogue |-> d]
        ELSE IF m.performative \notin ValidReplies(last.performative)
        THEN [exc |-> "InvalidTransitionError", dialogue |-> d]
        ELSE [exc |-> "none",
              dialogue |-> [d EXCEPT
                  !.messages = Append(@, Stored(m)),
                  !.ended = m.performative \in TerminalPerformatives]]

dialogue_update_notable(d, m) ==
    LET last == d.messages[Len(d.messages)]
    IN  IF d.ended
        THEN [exc |-> "DialogueEndedError", dialogue |-> d]
        ELSE IF m.target # last.message_id \/ m.message_id # last.message_id + 1
        THEN [exc |-> "InvalidReferenceError", dialogue |-> d]
        ELSE [exc |-> "none",
              dialogue |-> [d EXCEPT
                  !.messages = Append(@, Stored(m)),
                  !.ended = m.performative \in TerminalPerformatives]]

dialogue_update_noended(d, m) ==
    LET last == d.messages[Len(d.messages)]
    IN  IF m.target # last.message_id \/ m.message_id # last.message_id + 1
        THEN [exc |-> "InvalidReferenceError", dialogue |-> d]
        ELSE IF m.performative \notin ValidReplies(last.performative)
        THEN [exc |-> "InvalidTransitionError", dialogue |-> d]
        ELSE [exc |-> "none",
              dialogue |-> [d EXCEPT
                  !.messages = Append(@, Stored(m)),
                  !.ended = m.performative \in TerminalPerformatives]]

\* 4.2 Dialogue state machine: update. An ended dialogue accepts nothing;
\* otherwise the reference to the last message is validated, then the
\* performative against the transition table. The result is the error
\* raised and the dialogue, changed only when the message is accepted.
dialogue_update(d, m) ==
    LET last == d.messages[Len(d.messages)]
    IN  IF d.ended
        THEN [exc |-> "DialogueEndedError", dialogue |-> d]
        ELSE IF m.target # last.message_id \/ m.message_id # last.message_id + 1
        THEN [exc |-> "InvalidReferenceError", dialogue |-> d]
        ELSE IF m.performative \notin ValidReplies(last.performative)
        THEN [exc |-> "InvalidTransitionError", dialogue |-> d]
        ELSE [exc |-> "none",
              dialogue |-> [d EXCEPT
                  !.messages = Append(@, Stored(m)),
                  !.ended = m.performative \in TerminalPerformatives]]

\* 4.3 Registry: create. A Dialogue under a fresh incomplete label, the
\* local agent being the starter.
registry_create(g, performative) ==
    LET ref == new_starter_reference(g)
        label == [starter_reference |-> ref,
                  responder_reference |-> Unassigned,
                  starter_address |-> Me,
                  responder_address |-> Cp]
        d == [label |-> label, role |-> "starter",
              messages |-> <<[performative |-> performative,
                              message_id |-> 1, target |-> 0]>>,
              ended |-> FALSE]
    IN  [g EXCEPT !.dialogues = Append(@, d),
                  !.nonce = ref,
                  !.dialogue = Len(g.dialogues) + 1]

SameReferences(a, b) ==
    /\ a.starter_reference = b.starter_reference
    /\ a.responder_reference = b.responder_reference

Resolve_anyaddress(g, label) ==
    LET byLabel == {i \in 1..Len(g.dialogues) :
                      SameReferences(g.dialogues[i].label, label)}
        byKey == {i \in 1..Len(g.dialogues) :
                    SameReferences(g.dialogues[i].label, IncompleteVersion(label))}
        byMap == {i \in 1..Len(g.dialogues) :
                    <<label, g.dialogues[i].label>> \in g.incomplete_to_complete}
    IN  IF ~IsIncomplete(label) /\ byLabel # {} THEN CHOOSE i \in byLabel : TRUE
        ELSE IF byKey # {} THEN CHOOSE i \in byKey : TRUE
        ELSE IF IsIncomplete(label) /\ byMap # {} THEN CHOOSE i \in byMap : TRUE
        ELSE None

Resolve_nomap(g, label) ==
    LET byLabel == {i \in 1..Len(g.dialogues) : g.dialogues[i].label = label}
        byKey == {i \in 1..Len(g.dialogues) :
                    g.dialogues[i].label = IncompleteVersion(label)}
    IN  IF ~IsIncomplete(label) /\ byLabel # {} THEN CHOOSE i \in byLabel : TRUE
        ELSE IF byKey # {} THEN CHOOSE i \in byKey : TRUE
        ELSE None

\* The Dialogue a label leads to: by the complete label, by the incomplete
\* key a Dialogue is still stored under, or by the recorded mapping of an
\* incomplete key; None when there is no entry.
Resolve(g, label) ==
    LET byLabel == {i \in 1..Len(g.dialogues) : g.dialogues[i].label = label}
        byKey == {i \in 1..Len(g.dialogues) :
                    g.dialogues[i].label = IncompleteVersion(label)}
        byMap == {i \in 1..Len(g.dialogues) :
                    <<label, g.dialogues[i].label>> \in g.incomplete_to_complete}
    IN  IF ~IsIncomplete(label) /\ byLabel # {} THEN CHOOSE i \in byLabel : TRUE
        ELSE IF byKey # {} THEN CHOOSE i \in byKey : TRUE
        ELSE IF IsIncomplete(label) /\ byMap # {} THEN CHOOSE i \in byMap : TRUE
        ELSE None

registry_update_lenient(g, m) ==
    LET own == LabelOf(m, Me, Cp)
        other == LabelOf(m, Cp, Me)
        label == IF Resolve(g, own) # None THEN own ELSE other
        i == Resolve(g, label)
    IN  IF i = None
        THEN IF TRUE
             THEN [g EXCEPT
                     !.dialogues = Append(@,
                         [label |-> other, role |-> "responder",
                          messages |-> <<Stored(m)>>, ended |-> FALSE]),
                     !.dialogue = Len(g.dialogues) + 1]
             ELSE [g EXCEPT !.exc = "UnknownDialogueError"]
        ELSE
            LET d == g.dialogues[i]
                completes == IsIncomplete(d.label) /\ ~IsIncomplete(label)
                newLabel == IF completes
                            THEN complete(d.label, label.responder_reference)
                            ELSE d.label
                collides == \E j \in 1..Len(g.dialogues) :
                                j # i /\ g.dialogues[j].label = newLabel
                u == dialogue_update(d, m)
            IN  IF IsIncomplete(d.label) /\ IsIncomplete(label)
                THEN [g EXCEPT !.exc = "InvalidReferenceError"]
                ELSE IF completes /\ collides
                THEN [g EXCEPT !.exc = "DialogueLabelCollisionError"]
                ELSE IF u.exc # "none"
                THEN [g EXCEPT !.exc = u.exc]
                ELSE [g EXCEPT
                        !.dialogues[i] = [u.dialogue EXCEPT !.label = newLabel],
                        !.incomplete_to_complete =
                            IF completes THEN @ \cup {<<d.label, newLabel>>} ELSE @,
                        !.dialogue = i]

registry_update_eager(g, m) ==
    LET own == LabelOf(m, Me, Cp)
        other == LabelOf(m, Cp, Me)
        label == IF Resolve(g, own) # None THEN own ELSE other
        i == Resolve(g, label)
    IN  IF i = None
        THEN IF IsOpening(m)
             THEN [g EXCEPT
                     !.dialogues = Append(@,
                         [label |-> other, role |-> "responder",
                          messages |-> <<Stored(m)>>, ended |-> FALSE]),
                     !.dialogue = Len(g.dialogues) + 1]
             ELSE [g EXCEPT !.exc = "UnknownDialogueError"]
        ELSE
            LET d == g.dialogues[i]
                completes == IsIncomplete(d.label) /\ ~IsIncomplete(label)
                newLabel == IF completes
                            THEN complete(d.label, label.responder_reference)
                            ELSE d.label
                collides == \E j \in 1..Len(g.dialogues) :
                                j # i /\ g.dialogues[j].label = newLabel
                u == dialogue_update(d, m)
            IN  IF IsIncomplete(d.label) /\ IsIncomplete(label)
                THEN [g EXCEPT !.exc = "InvalidReferenceError"]
                ELSE IF completes /\ collides
                THEN [g EXCEPT !.exc = "DialogueLabelCollisionError"]
                ELSE IF u.exc # "none"
                THEN [g EXCEPT
                        !.exc = u.exc,
                        !.dialogues[i].label = newLabel,
                        !.incomplete_to_complete =
                            IF completes THEN @ \cup {<<d.label, newLabel>>} ELSE @]
                ELSE [g EXCEPT
                        !.dialogues[i] = [u.dialogue EXCEPT !.label = newLabel],
                        !.incomplete_to_complete =
                            IF completes THEN @ \cup {<<d.label, newLabel>>} ELSE @,
                        !.dialogue = i]

\* 4.3 Registry: update. A rejected message leaves the registry as it was
\* (section 7); a message that carries no responder reference cannot
\* complete a Dialogue still stored under its incomplete label and is
\* rejected, so that the first accepted reply is the one that completes it
\* (section 8).
registry_update(g, m) ==
    LET own == LabelOf(m, Me, Cp)
        other == LabelOf(m, Cp, Me)
        label == IF Resolve(g, own) # None THEN own ELSE other
        i == Resolve(g, label)
    IN  IF i = None
        THEN IF IsOpening(m)
             THEN [g EXCEPT
                     !.dialogues = Append(@,
                         [label |-> other, role |-> "responder",
                          messages |-> <<Stored(m)>>, ended |-> FALSE]),
                     !.dialogue = Len(g.dialogues) + 1]
             ELSE [g EXCEPT !.exc = "UnknownDialogueError"]
        ELSE
            LET d == g.dialogues[i]
                completes == IsIncomplete(d.label) /\ ~IsIncomplete(label)
                newLabel == IF completes
                            THEN complete(d.label, label.responder_reference)
                            ELSE d.label
                collides == \E j \in 1..Len(g.dialogues) :
                                j # i /\ g.dialogues[j].label = newLabel
                u == dialogue_update(d, m)
            IN  IF IsIncomplete(d.label) /\ IsIncomplete(label)
                THEN [g EXCEPT !.exc = "InvalidReferenceError"]
                ELSE IF completes /\ collides
                THEN [g EXCEPT !.exc = "DialogueLabelCollisionError"]
                ELSE IF u.exc # "none"
                THEN [g EXCEPT !.exc = u.exc]
                ELSE [g EXCEPT
                        !.dialogues[i] = [u.dialogue EXCEPT !.label = newLabel],
                        !.incomplete_to_complete =
                            IF completes THEN @ \cup {<<d.label, newLabel>>} ELSE @,
                        !.dialogue = i]

\* The application opens a conversation.
RegCreate(performative) ==
    /\ Len(reg_dialogues) < MaxRegDialogues
    /\ RegStore(registry_create(registry, performative))
    /\ UNCHANGED <<schedvars, succeeded, profvars, searchvars, scanvars>>

\* A message is handed to the registry.
RegUpdate(m) ==
    LET g == registry_update(registry, m)
    IN  /\ Len(g.dialogues) <= MaxRegDialogues
        /\ RegStore(g)
        /\ UNCHANGED <<schedvars, succeeded, profvars, searchvars, scanvars>>

RegNext ==
    \/ \E performative \in InitialPerformatives : RegCreate(performative)
    \/ \E m \in InboundMessages : RegUpdate(m)

\* The registry on its own, the scheduler left as constructed.
RegInit == Init /\ max_processing = MaxProcessingLimit /\ tick_interval = MaxTickInterval

RegSpec == RegInit /\ [][RegNext]_vars

\* ------------------------------------------------------------- profiling
\* aea/helpers/profiling.py: Profiling counts, for a tracked type obj, the
\* instances created (a wrapper installed on obj.__new__) and the instances
\* present (a scan of the objects the garbage collector lists).

Calling == {t \in Threads : new_local[t] # NotCalling}

\* Profiling.run reaches set_counters: the counter of obj is set to 0 and
\* obj.__new__ is replaced by the wrapper.
SetCounters ==
    /\ run_pc = "set_counters"
    /\ counter' = 0
    /\ patched' = TRUE
    /\ run_pc' = "sleep"
    /\ UNCHANGED <<instances, constructed, earlier, new_local,
                   objects_present, report>>
    /\ UNCHANGED <<schedvars, succeeded, regvars, searchvars, scanvars>>

\* Thread t calls obj(...). With the original __new__ the instance is just
\* created; with the wrapper, self._counter[obj] += 1 first reads the count.
NewCall(t) ==
    /\ new_local[t] = NotCalling
    /\ constructed + earlier + Cardinality(Calling) < MaxInstances
    /\ IF patched
       THEN /\ new_local' = [new_local EXCEPT ![t] = counter]
            /\ UNCHANGED <<instances, earlier>>
       ELSE /\ instances' = instances + 1
            /\ earlier' = earlier + 1
            /\ UNCHANGED new_local
    /\ UNCHANGED <<counter, patched, constructed, run_pc, objects_present, report>>
    /\ UNCHANGED <<schedvars, succeeded, regvars, searchvars, scanvars>>

\* The wrapper in thread t stores the incremented count and returns the
\* instance orig_new creates.
NewReturn(t) ==
    /\ new_local[t] # NotCalling
    /\ counter' = new_local[t] + 1
    /\ new_local' = [new_local EXCEPT ![t] = NotCalling]
    /\ instances' = instances + 1
    /\ constructed' = constructed + 1
    /\ UNCHANGED <<patched, earlier, run_pc, objects_present, report>>
    /\ UNCHANGED <<schedvars, succeeded, regvars, searchvars, scanvars>>

\* The last reference to an instance goes away.
Release ==
    /\ instances > 0
    /\ instances' = instances - 1
    /\ UNCHANGED <<counter, patched, constructed, earlier, new_local, run_pc,
                   objects_present, report>>
    /\ UNCHANGED <<schedvars, succeeded, regvars, searchvars, scanvars>>

\* get_profile_data evaluates get_objects_instances: the instances of obj
\* among gc.get_objects().
GetObjectsInstances ==
    /\ run_pc = "sleep"
    /\ objects_present' = instances
    /\ run_pc' = "output"
    /\ UNCHANGED <<counter, patched, instances, constructed, earlier, new_local,
                   report>>
    /\ UNCHANGED <<schedvars, succeeded, regvars, searchvars, scanvars>>

\* output_profile_data renders objects_present and the counter that
\* get_objects_created returned.
OutputProfileData ==
    /\ run_pc = "output"
    /\ report' = [ready |-> TRUE, created |-> counter,
                  present |-> objects_present,
                  constructed |-> constructed]
    /\ run_pc' = "sleep"
    /\ UNCHANGED <<counter, patched, instances, constructed, earlier, new_local,
                   objects_present>>
    /\ UNCHANGED <<schedvars, succeeded, regvars, searchvars, scanvars>>

ProfilingNext ==
    \/ SetCounters
    \/ \E t \in Threads : NewCall(t)
    \/ \E t \in Threads : NewReturn(t)
    \/ Release
    \/ GetObjectsInstances
    \/ OutputProfileData

ProfilingInit == Init /\ max_processing = MaxProcessingLimit
                      /\ tick_interval = MaxTickInterval

ProfilingSpec == ProfilingInit /\ [][ProfilingNext]_vars

\* ----------------------------------------------------------------- scans
\* get_objects_instances and get_dialogues_by_type walk the objects the
\* garbage collector lists, under the module lock. The objects here are the
\* Dialogue objects of the registry and its storage; Dialogue is a tracked
\* type of get_objects_instances. A frame f has the position pc, the
\* function fn, the objects of the snapshot still to visit (the storage is
\* the last), whether an exception is propagating, and the result so far.

\* The loop body for the next object of the snapshot, on registry g.
visit_drain(g, f) ==
    LET counted ==
            IF f.todo > 1
            THEN [f EXCEPT !.objects = @ + 1]
            ELSE IF f.fn = "get_dialogues_by_type"
                 THEN [f EXCEPT !.labels =
                                  @ + Cardinality(g.incomplete_to_complete)]
                 ELSE f
    IN  [g |-> IF f.todo > 1 \/ f.fn # "get_dialogues_by_type"
               THEN g
               ELSE [g EXCEPT !.incomplete_to_complete = {}],
         f |-> [counted EXCEPT !.todo = @ - 1,
                               !.pc = IF f.todo = 1 THEN "release"
                                      ELSE "visit"]]

visit(g, f) ==
    LET counted ==
            IF f.todo > 1
            THEN [f EXCEPT !.objects = @ + 1]
            ELSE IF f.fn = "get_dialogues_by_type"
                 THEN [f EXCEPT !.labels =
                                  @ + Cardinality(g.incomplete_to_complete)]
                 ELSE f
    IN  [g |-> g,
         f |-> [counted EXCEPT !.todo = @ - 1,
                               !.pc = IF f.todo = 1 THEN "release"
                                      ELSE "visit"]]

\* An exception inside the try block: control goes to the finally clause.
raise_in_scan_nofinally(f) == [f EXCEPT !.raised = TRUE, !.pc = "failed"]

raise_in_scan(f) == [f EXCEPT !.raised = TRUE, !.pc = "release"]

\* Thread t calls one of the two scans.
ScanCall(t, fn) ==
    /\ scan[t].pc = "idle"
    /\ scan' = [scan EXCEPT ![t] = [Returned EXCEPT !.pc = "acquire",
                                                    !.fn = fn]]
    /\ UNCHANGED lock
    /\ UNCHANGED <<schedvars, succeeded, regvars, profvars, searchvars>>

\* lock.acquire() returns.
LockAcquire(t) ==
    /\ scan[t].pc = "acquire"
    /\ lock = Free
    /\ lock' = t
    /\ scan' = [scan EXCEPT ![t].pc = "snapshot"]
    /\ UNCHANGED <<schedvars, succeeded, regvars, profvars, searchvars>>

\* gc.get_objects() returns the list of the objects alive now.
GcGetObjects(t) ==
    /\ scan[t].pc = "snapshot"
    /\ scan' = [scan EXCEPT ![t].todo = Len(reg_dialogues) + 1,
                            ![t].pc = "visit"]
    /\ UNCHANGED lock
    /\ UNCHANGED <<schedvars, succeeded, regvars, profvars, searchvars>>

\* One turn of the loop over the snapshot.
Visit(t) ==
    /\ scan[t].pc = "visit"
    /\ LET v == visit(registry, scan[t])
       IN  /\ scan' = [scan EXCEPT ![t] = v.f]
           /\ reg_dialogues' = v.g.dialogues
           /\ reg_incomplete_to_complete' = v.g.incomplete_to_complete
    /\ UNCHANGED <<lock, reg_nonce, reg_result>>
    /\ UNCHANGED <<schedvars, succeeded, profvars, searchvars>>

\* The scan raises.
ScanRaise(t) ==
    /\ scan[t].pc \in {"snapshot", "visit"}
    /\ scan' = [scan EXCEPT ![t] = raise_in_scan(@)]
    /\ UNCHANGED lock
    /\ UNCHANGED <<schedvars, succeeded, regvars, profvars, searchvars>>

\* The finally clause: lock.release(); then the function returns its
\* result, or the exception goes on to Profiling.run, which ends.
LockRelease(t) ==
    /\ scan[t].pc = "release"
    /\ lock' = Free
    /\ scan' = [scan EXCEPT ![t].pc = IF scan[t].raised THEN "failed"
                                      ELSE "idle"]
    /\ UNCHANGED <<schedvars, succeeded, regvars, profvars, searchvars>>

ScanStep(t) == GcGetObjects(t) \/ Visit(t) \/ LockRelease(t)

\* Two profiler threads scanning while the control thread opens dialogues.
LockNext ==
    \/ \E t \in Profilers :
          \E fn \in {"get_objects_instances", "get_dialogues_by_type"} :
             ScanCall(t, fn)
    \/ \E t \in Profilers : LockAcquire(t)
    \/ \E t \in Profilers : GcGetObjects(t)
    \/ \E t \in Profilers : Visit(t)
    \/ \E t \in Profilers : ScanRaise(t)
    \/ \E t \in Profilers : LockRelease(t)
    \/ \E performative \in InitialPerformatives : RegCreate(performative)

\* A thread inside a scan is scheduled until it leaves the scan.
LockSpec ==
    RegInit /\ [][LockNext]_vars /\ \A t \in Profilers : WF_vars(ScanStep(t))

\* Messages the control thread handles while a profiler scans: openings and
\* first replies.
ScanMessages ==
    {m \in InboundMessages :
        /\ m.target = m.message_id - 1
        /\ m.message_id <= 2
        /\ m.performative \in {"cfp", "propose"}}

\* One profiler thread calling get_dialogues_by_type while the control
\* thread works on the registry.
ScanNext ==
    \/ ScanCall("profiler_1", "get_dialogues_by_type")
    \/ LockAcquire("profiler_1")
    \/ GcGetObjects("profiler_1")
    \/ Visit("profiler_1")
    \/ ScanRaise("profiler_1")
    \/ LockRelease("profiler_1")
    \/ \E performative \in InitialPerformatives : RegCreate(performative)
    \/ \E m \in ScanMessages : RegUpdate(m)

ScanSpec == RegInit /\ [][ScanNext]_vars

\* ---------------------------------------------------------------- search
\* GenericSearchBehaviour: a ticker behaviour of the same skill that sends
\* an oef search request when the strategy is searching and the transaction
\* behaviour has nothing waiting.

\* What GenericSearchBehaviour.act reads and writes: the strategy's flag,
\* the transaction behaviour and the search requests put in the outbox.
search_self ==
    [is_searching |-> is_searching, waiting |-> waiting,
     processing |-> processing, searches |-> searches]

search_act_busy(s) ==
    IF ~s.is_searching
    THEN s
    ELSE IF Len(s.waiting) > 0 \/ s.processing # None
         THEN s
         ELSE [s EXCEPT !.searches = @ + 1]

search_act(s) ==
    IF ~s.is_searching
    THEN s
    ELSE IF Len(s.waiting) > 0
         THEN s
         ELSE [s EXCEPT !.searches = @ + 1]

\* One tick of the search behaviour.
SearchAct ==
    LET s == search_act(search_self)
    IN  /\ s.searches <= MaxSearches
        /\ is_searching' = s.is_searching
        /\ searches' = s.searches
        /\ waiting' = s.waiting
        /\ processing' = s.processing
        /\ call' = <<"search_act", None>>
        /\ UNCHANGED <<processing_time, timedout, max_processing,
                       tick_interval, dialogues, outbox, exc, enqueued,
                       replied>>
        /\ UNCHANGED <<regvars, succeeded, profvars, scanvars>>

\* setup() or a handler of the skill switches searching on or off.
SetSearching(b) ==
    /\ is_searching # b
    /\ is_searching' = b
    /\ call' = <<"set_searching", None>>
    /\ UNCHANGED <<searches, waiting, processing, processing_time, timedout,
                   max_processing, tick_interval, dialogues, outbox, exc,
                   enqueued, replied>>
    /\ UNCHANGED <<regvars, succeeded, profvars, scanvars>>

\* The search behaviour next to the transaction behaviour, whose requests
\* are answered with success replies or time out.
SearchNext ==
    \/ SearchAct
    \/ \E b \in BOOLEAN : SetSearching(b)
    \/ Act
    \/ \E d \in 1..Len(dialogues) : Finish(d)
    \/ \E r \in Requests : Enqueue(r)

SearchInit == Init /\ max_processing = 0 /\ tick_interval = 1

SearchSpec == SearchInit /\ [][SearchNext]_vars

\* ------------------------------------------------------------ properties

Req(d) == dialogues[d]
Last(q) == q[Len(q)]

\* Submitted requests that no reply callback has been called for.
InFlight == {d \in Range(outbox) : d \notin replied}

\* No attempt of request r has had a reply callback.
NeverReplied(r) == \A d \in 1..Len(dialogues) : dialogues[d] = r => d \notin replied

\* The step is a tick / a tick that finds the processing dialogue overdue.
Tick == call' = <<"act", None>>
WaitTick == Tick /\ processing # None /\ processing_time <= max_processing
IdleTick == Tick /\ processing = None /\ waiting # <<>>
TimeoutTick == Tick /\ processing # None /\ processing_time > max_processing

\* C1 (as stated): at every moment at most one submitted request is still
\* awaiting its reply or failure.
C1_OneAwaitingReply == Cardinality(InFlight) <= 1

\* C1 (amended): at every moment at most one submitted request has neither
\* received a reply or failure nor been timed out, and it is the one in the
\* processing slot.
C1_OneInFlightNotTimedOut ==
    /\ Cardinality(InFlight \ timedout) <= 1
    /\ InFlight \ timedout \subseteq {processing}

C1_Witness == Cardinality(InFlight) = 2 /\ processing \in InFlight

\* C2: a tick taken while a request is processing and processing_time <=
\* max_processing adds one tick_interval to processing_time and leaves the
\* waiting queue, the processing slot, timedout and the outbox unchanged.
C2_WaitTickOnlyCounts ==
    [][WaitTick =>
        /\ processing_time' = processing_time + tick_interval
        /\ UNCHANGED <<waiting, processing, timedout, outbox, dialogues>>]_vars

C2_Witness ==
    /\ call = <<"act", None>>
    /\ processing # None
    /\ processing_time > 0
    /\ waiting # <<>>

\* C3: a tick taken with an empty slot and a non-empty queue removes exactly
\* the head of the queue, creates one dialogue for it, puts exactly one
\* message in the outbox, sets processing_time to 0 and fills the slot with
\* the new dialogue.
C3_IdleTickStartsHead ==
    [][IdleTick =>
        /\ waiting' = Tail(waiting)
        /\ processing' = Len(dialogues) + 1
        /\ dialogues' = Append(dialogues, Head(waiting))
        /\ outbox' = Append(outbox, processing')
        /\ processing_time' = 0
        /\ timedout' = timedout]_vars

C3_Witness ==
    /\ call = <<"act", None>>
    /\ processing # None
    /\ processing_time = 0
    /\ timedout = {}
    /\ replied = {}
    /\ waiting # <<>>
    /\ Req(processing) # Head(waiting)

ScenarioStart ==
    /\ waiting = <<A, B>>
    /\ processing = None
    /\ processing_time = 0
    /\ max_processing = 2
    /\ tick_interval = 1

C7_FinishProcessingClearsSlot ==
    [][(processing # None /\ call' = <<"finish_processing", processing>>) =>
        /\ processing' = None
        /\ processing_time' = 0
        /\ exc' = "none"
        /\ UNCHANGED <<waiting, timedout, outbox, dialogues>>]_vars

C7_Witness ==
    /\ call = <<"finish_processing", 1>>
    /\ exc = "none"
    /\ Len(dialogues) = 1
    /\ processing = None
    /\ waiting = <<>>
    /\ timedout = {}

\* C8: finish_processing called with a dialogue that is not the processing
\* dialogue but whose label is in timedout removes that label from timedout
\* and changes nothing else.
C8_LateReplyOnlyDropsLabel ==
    [][(call'[1] = "finish_processing" /\ call'[2] # processing
            /\ call'[2] \in timedout) =>
        /\ timedout' = timedout \ {call'[2]}
        /\ exc' = "none"
        /\ UNCHANGED <<waiting, processing, processing_time, outbox, dialogues>>]_vars

C8_Witness ==
    /\ call[1] = "finish_processing"
    /\ exc = "none"
    /\ processing # None
    /\ call[2] # processing
    /\ Req(call[2]) = Req(processing)
    /\ processing_time > 0

\* C9: finish_processing called with a dialogue that is neither the
\* processing dialogue nor labelled in timedout raises ValueError and leaves
\* the waiting queue, the slot, processing_time and timedout unchanged.
C9_UnknownReplyRaises ==
    [][(call'[1] = "finish_processing" /\ call'[2] # processing
            /\ call'[2] \notin timedout) =>
        /\ exc' = "ValueError"
        /\ UNCHANGED <<waiting, processing, processing_time, timedout>>]_vars

C9_Witness ==
    /\ call[1] = "finish_processing"
    /\ exc = "ValueError"
    /\ processing # None

\* C10 (as stated): failed_processing, for every dialogue it is called
\* with, appends the associated request at the tail of the waiting queue and
\* clears the slot when that dialogue was the processing item.
C10_FailedAlwaysRequeues ==
    [][call'[1] = "failed_processing" =>
        /\ waiting' = Append(waiting, Req(call'[2]))
        /\ call'[2] = processing => processing' = None]_vars

\* C10 (amended): failed_processing called with the processing dialogue or
\* with a dialogue whose label is in timedout appends the associated request
\* at the tail of the waiting queue; the slot is cleared when the dialogue
\* was the processing item and is untouched otherwise.
C10_FailedRequeuesKnown ==
    [][(call'[1] = "failed_processing"
            /\ (call'[2] = processing \/ call'[2] \in timedout)) =>
        /\ waiting' = Append(waiting, Req(call'[2]))
        /\ exc' = "none"
        /\ call'[2] = processing =>
             processing' = None /\ processing_time' = 0 /\ timedout' = timedout
        /\ call'[2] # processing =>
             /\ processing' = processing
             /\ processing_time' = processing_time
             /\ timedout' = timedout \ {call'[2]}]_vars

C10_Witness ==
    /\ call[1] = "failed_processing"
    /\ exc = "none"
    /\ Len(waiting) >= 2
    /\ Last(waiting) = Req(call[2])

\* Attempt d has ended in a timeout or in an accepted failure reply.
Ended(d) ==
    \/ d \in timedout
    \/ call = <<"failed_processing", d>> /\ exc = "none"

\* A later attempt of the request of attempt d has been submitted.
Retried(d) == \E e \in (d + 1)..Len(dialogues) : dialogues[e] = dialogues[d]

\* The request of attempt d waits at a position the dialogue bound still
\* lets the ticks reach.
Room(d) ==
    \E k \in 1..Len(waiting) :
        waiting[k] = Req(d) /\ Len(dialogues) + k <= MaxDialogues

\* C11: a request whose attempt ended in a failure reply or in a timeout is
\* never dropped (it has been submitted again or stands in the waiting
\* queue), whatever the number of its earlier attempts, and under fair
\* ticking it is submitted again.
C11_RetryIndefinitely ==
    /\ [](\A d \in 1..Len(dialogues) :
            Ended(d) => Retried(d) \/ Req(d) \in Range(waiting))
    /\ [](\A d \in 1..MaxDialogues :
            (d <= Len(dialogues) /\ Ended(d) /\ Room(d)) =>
                <>(d <= Len(dialogues) /\ Retried(d)))

C11_Witness ==
    /\ dialogues = <<A, A, A>>
    /\ 1 \in timedout
    /\ replied = {2}
    /\ processing = 3

\* C12: the number of labels in timedout never exceeds a fixed bound that
\* does not depend on how many timeouts have happened: at most one label
\* for each request the scheduler has been given.
C12_TimedOutBounded == Cardinality(timedout) <= Cardinality(enqueued)

\* ------------------------------------------- further scheduler properties

\* n ticks in a row, no reply callback in between.
RECURSIVE Ticks(_, _)
Ticks(s, n) == IF n = 0 THEN s ELSE act(Ticks(s, n - 1))

\* floor(T/p) + 1 for the configured limit T and tick period p.
IncrementTicks == (max_processing \div tick_interval) + 1

\* C23: from the tick that started a request, with no reply, each of the
\* next floor(T/p)+1 ticks only adds p to processing_time, and the tick
\* after those times the request out; a request is timed out only by a tick
\* that finds processing_time > max_processing, and a tick that finds
\* processing_time <= max_processing (equality included) keeps it
\* processing.
C23_TimeoutAfterLimit ==
    /\ []((processing # None /\ processing_time = 0) =>
            /\ \A n \in 1..IncrementTicks :
                  Ticks(self, n) =
                      [self EXCEPT !.processing_time = n * tick_interval]
            /\ processing \in Ticks(self, IncrementTicks + 1).timedout
            /\ Ticks(self, IncrementTicks + 1).processing # processing)
    /\ [][(processing # None /\ processing \in timedout') =>
            /\ Tick
            /\ processing_time > max_processing
            /\ processing_time = IncrementTicks * tick_interval]_vars
    /\ [][(Tick /\ processing # None /\ processing_time <= max_processing) =>
            /\ processing' = processing
            /\ timedout' = timedout]_vars

C23_Witness ==
    /\ max_processing = 2
    /\ tick_interval = 2
    /\ call = <<"act", None>>
    /\ replied = {}
    /\ timedout = {1}
    /\ processing = 2
    /\ processing_time = 0

FirstIndex(q, x) == CHOOSE i \in 1..Len(q) : q[i] = x /\ \A j \in 1..(i - 1) : q[j] # x

\* The step re-enqueues the request of dialogue d: the tick that times d
\* out, or an accepted failure reply for d.
Requeues(d) ==
    \/ TimeoutTick /\ d = processing
    \/ call' = <<"failed_processing", d>> /\ exc' = "none"

\* C24: a request re-enqueued by a timeout or by a failure reply stands
\* behind every request that is in the waiting queue at that moment: in the
\* queue with the request appended, which is served from the head, each of
\* those requests comes up before the re-enqueued request does.
C24_RequeuedBehindWaiting ==
    [][\A d \in 1..Len(dialogues) :
          Requeues(d) =>
              LET r == Req(d)
                  q == Append(waiting, r)
              IN  \A x \in Range(waiting) \ {r} :
                      FirstIndex(q, x) < FirstIndex(q, r)]_vars

\* C25: failed_processing called with a dialogue that is neither the
\* processing dialogue nor labelled in timedout raises ValueError, appends
\* nothing to the waiting queue and leaves the slot, processing_time and
\* timedout unchanged.
C25_FailedUnknownRaises ==
    [][(call'[1] = "failed_processing" /\ call'[2] # processing
            /\ call'[2] \notin timedout) =>
        /\ exc' = "ValueError"
        /\ UNCHANGED <<waiting, processing, processing_time, timedout,
                       dialogues, outbox>>]_vars

C25_Witness ==
    /\ call[1] = "failed_processing"
    /\ exc = "ValueError"
    /\ processing # None
    /\ waiting # <<>>

\* Dialogue d is neither the processing dialogue nor labelled in timedout.
Settled(d) == d # processing /\ d \notin timedout

\* C26: a dialogue is finished at most once: when a finish_processing or
\* failed_processing call for it is accepted it is, from then on and
\* whatever ticks and callbacks for other dialogues follow, neither the
\* processing dialogue nor labelled in timedout, and every callback for a
\* dialogue in that condition raises ValueError.
C26_FinishedAtMostOnce ==
    [][LET settled == {d \in 1..Len(dialogues) : Settled(d)}
           d == call'[2]
       IN  /\ settled \cap (timedout' \cup {processing'}) = {}
           /\ call'[1] \in {"finish_processing", "failed_processing"} =>
                 /\ exc' = "none" => (d # processing' /\ d \notin timedout')
                 /\ d \in settled => exc' = "ValueError"]_vars

C26_Witness ==
    /\ call = <<"finish_processing", 1>>
    /\ exc = "ValueError"
    /\ 2 \in timedout
    /\ processing = 3

\* Request r is in the waiting queue or is the request of the dialogue in
\* the processing slot.
Present(r) ==
    \/ r \in Range(waiting)
    \/ processing # None /\ Req(processing) = r

\* C27: no request is lost: in every reachable state every request that was
\* placed in the waiting queue and has no attempt completed by a success
\* reply is in the waiting queue or is the request of the dialogue in the
\* processing slot.
C27_NoRequestLost ==
    \A r \in enqueued \ succeeded : Present(r)

C27_Witness ==
    /\ dialogues = <<A, B>>
    /\ call = <<"failed_processing", 2>>
    /\ exc = "none"
    /\ timedout = {1}
    /\ processing = None
    /\ waiting = <<A, B>>

\* Occurrences of request r in the scheduler.
Occurrences(r) ==
    Count(waiting, r) + (IF processing # None /\ Req(processing) = r THEN 1 ELSE 0)

\* C28: a request occurs at most once in the scheduler: not twice in the
\* waiting queue, and not in the waiting queue while it is the request of
\* the processing dialogue.
C28_AtMostOnceInScheduler == \A r \in Requests : Occurrences(r) <= 1

\* C29: once finish_processing has accepted a success reply for an attempt
\* of a request, no dialogue is created for that request any more.
C29_NoSubmitAfterSuccess ==
    [][\A e \in (Len(dialogues) + 1)..Len(dialogues') :
          dialogues'[e] \notin succeeded]_vars

\* C30: the dialogue in the processing slot is never labelled in timedout;
\* a reply callback for the processing dialogue is handled as the
\* processing case (the slot is cleared, timedout untouched) and a reply
\* callback for a dialogue labelled in timedout leaves the slot and its
\* processing_time alone.
C30_ProcessingNotTimedOut ==
    /\ [](processing \notin timedout)
    /\ [][call'[1] \in {"finish_processing", "failed_processing"} =>
            LET d == call'[2]
            IN  /\ d = processing =>
                      /\ processing' = None
                      /\ timedout' = timedout
                      /\ exc' = "none"
                /\ d \in timedout =>
                      /\ processing' = processing
                      /\ processing_time' = processing_time
                      /\ timedout' = timedout \ {d}]_vars

C30_Witness ==
    /\ call[1] = "finish_processing"
    /\ exc = "none"
    /\ call[2] < processing
    /\ Req(call[2]) = Req(processing)
    /\ timedout = {}
    /\ processing_time > 0

\* C31: whenever the processing slot is empty, processing_time is 0, and
\* every step that changes the slot (a start, a timeout, a matching finish
\* or failure) leaves processing_time at 0, so each attempt is timed from 0.
C31_IdleSlotTimeZero ==
    /\ [](processing = None => processing_time = 0)
    /\ [][processing' # processing => processing_time' = 0]_vars

C31_Witness ==
    /\ call = <<"finish_processing", 1>>
    /\ exc = "none"
    /\ dialogues = <<A>>
    /\ timedout = {}
    /\ waiting = <<B>>
    /\ processing = None
    /\ processing_time = 0

\* C32: in every reachable state 0 <= processing_time <= max_processing +
\* tick_interval.
C32_ElapsedBounded ==
    /\ 0 <= processing_time
    /\ processing_time <= max_processing + tick_interval

C32_Witness ==
    /\ processing # None
    /\ tick_interval = MaxTickInterval
    /\ processing_time = max_processing + tick_interval
    /\ replied # {}

\* C33: under fair ticking, when every submitted request gets a success
\* reply before it times out and finitely many requests are enqueued, every
\* enqueued request is eventually submitted, and eventually the waiting
\* queue and the processing slot are empty (and stay so once no request is
\* enqueued any more).
C33_PromptRepliesDrain ==
    /\ [](\A r \in Requests :
            r \in enqueued => <>(r \in Range(dialogues)))
    /\ <>[](waiting = <<>> /\ processing = None)

C33_Witness ==
    /\ enqueued = Requests
    /\ Len(dialogues) = Cardinality(Requests)
    /\ Range(dialogues) = Requests
    /\ replied = 1..Len(dialogues)
    /\ timedout = {}
    /\ waiting = <<>>
    /\ processing = None

\* C34: a tick of the search behaviour sends one search request exactly
\* when strategy.is_searching is true and the waiting queue of the
\* transaction behaviour is empty, whatever the processing slot holds;
\* otherwise it sends nothing. In both cases it changes nothing else.
C34_SearchWhenIdleQueue ==
    [][call' = <<"search_act", None>> =>
          /\ IF is_searching /\ waiting = <<>>
             THEN searches' = searches + 1
             ELSE searches' = searches
          /\ UNCHANGED <<is_searching, waiting, processing, processing_time,
                         timedout, dialogues, outbox, exc>>]_vars

C34_Witness ==
    /\ call = <<"search_act", None>>
    /\ searches = 1
    /\ waiting = <<>>
    /\ processing # None
    /\ processing_time > 0

\* ------------------------------------------------- properties of the engine

Dlg(i) == reg_dialogues[i]
LastMsg(d) == d.messages[Len(d.messages)]
RegIndices == 1..Len(reg_dialogues)

\* m is the reply to the request dialogue i was created with: it carries
\* the request's starter reference and the counterparty's responder
\* reference, targets the request and has a performative the table allows.
IsReplyToRequest(m, i) ==
    /\ Dlg(i).role = "starter"
    /\ Len(Dlg(i).messages) = 1
    /\ m.dialogue_reference[1] = Dlg(i).label.starter_reference
    /\ m.dialogue_reference[2] # Unassigned
    /\ m.message_id = 2
    /\ m.target = 1
    /\ m.performative \in ValidReplies(Dlg(i).messages[1].performative)

\* C13: update of the registry with the reply to a request created through
\* create returns the Dialogue create returned, appends the reply to it and
\* leaves every other Dialogue of the registry as it was.
C13_ReplyReturnsCreatedDialogue ==
    \A i \in RegIndices, m \in InboundMessages :
        IsReplyToRequest(m, i) =>
            LET g == registry_update(registry, m)
            IN  /\ g.exc = "none"
                /\ g.dialogue = i
                /\ Len(g.dialogues) = Len(reg_dialogues)
                /\ g.dialogues[i].messages = Append(Dlg(i).messages, Stored(m))
                /\ \A j \in RegIndices : j # i => g.dialogues[j] = Dlg(j)

C13_Witness ==
    /\ Len(reg_dialogues) = 2
    /\ reg_result = [exc |-> "none", dialogue |-> 2]
    /\ Dlg(2).role = "starter"
    /\ Len(Dlg(2).messages) = 2
    /\ Dlg(1).role = "responder"
    /\ Dlg(1).label.starter_reference = Dlg(2).label.starter_reference

C16_IdsIncreaseTargetsEarlier ==
    \A i \in RegIndices :
        LET ms == Dlg(i).messages
        IN  /\ ms[1].message_id = 1
            /\ \A k \in 2..Len(ms) :
                 /\ ms[k].message_id > ms[k - 1].message_id
                 /\ \E j \in 1..(k - 1) : ms[j].message_id = ms[k].target

C16_Witness == \E i \in RegIndices : Len(Dlg(i).messages) = 3

C18_EndedForever ==
    /\ [][\A i \in RegIndices :
            reg_dialogues[i].ended => reg_dialogues'[i] = reg_dialogues[i]]_vars
    /\ [](\A i \in RegIndices :
            /\ LastMsg(Dlg(i)).performative \in TerminalPerformatives
                   => Dlg(i).ended
            /\ Dlg(i).ended =>
                 \A m \in InboundMessages :
                     dialogue_update(Dlg(i), m) =
                         [exc |-> "DialogueEndedError", dialogue |-> Dlg(i)])

C18_Witness ==
    /\ reg_result.exc = "DialogueEndedError"
    /\ \E i \in RegIndices : Dlg(i).ended

\* The label of m, for either starter, is no Dialogue's label, is the
\* completion of no Dialogue's incomplete label and has no recorded mapping.
NoEntry(m) ==
    \A label \in {LabelOf(m, Me, Cp), LabelOf(m, Cp, Me)} :
        /\ \A i \in RegIndices :
             Dlg(i).label \notin {label, IncompleteVersion(label)}
        /\ \A pair \in reg_incomplete_to_complete : pair[1] # label

\* C19: a registry update with a message that matches no entry and is not
\* a dialogue-opening message (message id 1, target 0, an initial
\* performative, no responder reference) fails with UnknownDialogueError
\* and leaves the registry unchanged.
C19_UnknownDialogue ==
    \A m \in InboundMessages :
        (/\ NoEntry(m)
         /\ ~(/\ m.message_id = 1
              /\ m.target = 0
              /\ m.performative \in InitialPerformatives
              /\ m.dialogue_reference[2] = Unassigned)) =>
            registry_update(registry, m) =
                [registry EXCEPT !.exc = "UnknownDialogueError"]

C19_Witness ==
    /\ reg_result.exc = "UnknownDialogueError"
    /\ Len(reg_dialogues) >= 1

C21_StarterReferencesFresh ==
    /\ \A i \in RegIndices :
          Dlg(i).role = "starter" =>
              new_starter_reference(registry) # Dlg(i).label.starter_reference
    /\ \A performative \in InitialPerformatives :
          LET g == registry_create(registry, performative)
              new == g.dialogues[g.dialogue]
          IN  /\ g.exc = "none"
              /\ IsIncomplete(new.label)
              /\ \A i \in RegIndices :
                    /\ g.dialogues[i] = Dlg(i)
                    /\ Dlg(i).role = "starter" =>
                          /\ new.label.starter_reference
                                 # Dlg(i).label.starter_reference
                          /\ new.label # IncompleteVersion(Dlg(i).label)
    /\ \A i \in RegIndices, j \in RegIndices :
          (i # j /\ Dlg(i).role = "starter" /\ Dlg(j).role = "starter") =>
              Dlg(i).label.starter_reference # Dlg(j).label.starter_reference

C21_Witness ==
    /\ Len(reg_dialogues) = 2
    /\ Dlg(1).role = "starter"
    /\ Dlg(1).ended
    /\ Dlg(2).role = "starter"
    /\ Len(Dlg(2).messages) = 1
    /\ reg_result = [exc |-> "none", dialogue |-> 2]

\* --------------------------------------------------- properties of profiling

\* C22: in every report the created count of the tracked type equals the
\* number of instances constructed since set_counters and is at least the
\* present count; the created count never decreases from one report to the
\* next; the present count is the number of instances alive when
\* get_objects_instances scans.
C22_CreatedCoversPresent ==
    /\ [](report.ready =>
            /\ report.created = report.constructed
            /\ report.created >= report.present)
    /\ [][report'.created >= report.created]_vars
    /\ [][(run_pc = "sleep" /\ run_pc' = "output") =>
            objects_present' = instances]_vars

\* Thread t is between lock.acquire() and lock.release().
InScan(t) == scan[t].pc \in {"snapshot", "visit", "release"}

\* C35: the two scans exclude each other across threads through the module
\* lock: at most one thread is inside a scan, and it is the thread that
\* holds the lock; the lock is released on every way out of a scan,
\* an exception included, so whenever the lock is held it becomes free again
\* and a thread that is not inside a scan never holds it.
C35_ScansExclusiveLockReleased ==
    /\ [](\A t \in Profilers : \A u \in Profilers :
            (InScan(t) /\ InScan(u)) => t = u)
    /\ [](\A t \in Profilers : lock = t <=> InScan(t))
    /\ [](lock # Free => <>(lock = Free))

C35_Witness ==
    /\ scan["profiler_1"].pc = "failed"
    /\ scan["profiler_1"].fn = "get_dialogues_by_type"
    /\ lock = "profiler_2"
    /\ scan["profiler_2"].fn = "get_objects_instances"
    /\ scan["profiler_2"].pc = "visit"
    /\ scan["profiler_2"].objects > 0

\* C36: get_dialogues_by_type only reads: no step of the profiler thread,
\* however it is interleaved with the control thread, changes a Dialogue,
\* the incomplete-to-complete label map or anything else of the registry.
C36_ScanOnlyReads ==
    [][scan' # scan =>
          UNCHANGED <<reg_dialogues, reg_incomplete_to_complete, reg_nonce,
                      reg_result>>]_vars

C36_Witness ==
    /\ scan["profiler_1"].pc = "idle"
    /\ scan["profiler_1"].fn = "get_dialogues_by_type"
    /\ scan["profiler_1"].labels > 0
    /\ scan["profiler_1"].labels = Cardinality(reg_incomplete_to_complete)
    /\ scan["profiler_1"].objects < Len(reg_dialogues)

====
